---- MODULE Spec2Model ----
(***************************************************************************)
(* A model of wordlist_spider.py: URLValidator, TextProcessor.extract_words *)
(* and the crawl loop of WebSpider (crawl_website / crawl_page /            *)
(* fetch_page).                                                             *)
(*                                                                          *)
(* Strings that the program inspects character by character (page text,     *)
(* scheme, netloc) are sequences of one-character strings.  A URL is held   *)
(* in the six-field form urlparse gives it, each field such a sequence;     *)
(* urlparse and urlunparse convert between that form and the URL string.    *)
(***************************************************************************)
EXTENDS Integers, Sequences, FiniteSets, TLC

VARIABLES
    pc,                     \* position in crawl_website / extract_words
    seed,                   \* the start_url argument as given (--url)
    web,                    \* what the site serves for each URL fetched so far
    urls_to_visit,          \* crawl_website local (line 284)
    visited_urls,           \* WebSpider.visited_urls
    word_counts,            \* WebSpider.word_counts (Counter)
    word_order,             \* the keys of word_counts in insertion order
    page_word_counts,       \* WebSpider.page_word_counts
    total_words_processed,  \* WebSpider.total_words_processed
    page_count,             \* crawl_website local (line 285)
    current_url,            \* crawl_website local (line 289)
    new_links,              \* crawl_website local (line 290)
    top_words,              \* word_counts.most_common(10) (line 306)
    offered,                \* history: every URL ever put in urls_to_visit
    dequeued,               \* history: how often each URL was popped
    fetched,                \* history: how often fetch_page was called per URL
    sleeps,                 \* history: number of time.sleep(self.delay) calls
    text,                   \* argument of extract_words
    candidates,             \* extract_words: result of findall (line 151)
    words,                  \* extract_words: returned list (line 152)
    norm_args,              \* normalize_url: the URL strings it is given
    norm_results            \* normalize_url: the strings it returns

vars == <<pc, seed, web, urls_to_visit, visited_urls, word_counts,
          word_order, page_word_counts, total_words_processed, page_count,
          current_url, new_links, top_words, offered, dequeued, fetched,
          sleeps, text, candidates, words, norm_args, norm_results>>

(***************************************************************************)
(* Bounds of the model.                                                     *)
(***************************************************************************)
MaxLinks == 2      \* most anchors on one served page
MaxTextLen == 4    \* longest text given to extract_words on its own
MaxSteps == 8      \* cap on loop iterations (never reached by the crawl)

(***************************************************************************)
(* Characters.                                                              *)
(***************************************************************************)
Range(s) == {s[i] : i \in 1..Len(s)}

UpperLetters ==
    <<"A","B","C","D","E","F","G","H","I","J","K","L","M",
      "N","O","P","Q","R","S","T","U","V","W","X","Y","Z">>

LowerLetters ==
    <<"a","b","c","d","e","f","g","h","i","j","k","l","m",
      "n","o","p","q","r","s","t","u","v","w","x","y","z">>

DigitChars == {"0","1","2","3","4","5","6","7","8","9"}

UpperSet == Range(UpperLetters)

LetterSet == Range(UpperLetters) \cup Range(LowerLetters)

WordCharSet == LetterSet \cup DigitChars \cup {"_"}

\* str.lower() on one character
LowerChar(c) ==
    IF c \in UpperSet
    THEN LowerLetters[CHOOSE i \in 1..Len(UpperLetters) : UpperLetters[i] = c]
    ELSE c

\* str.lower()
Lower(s) == [i \in 1..Len(s) |-> LowerChar(s[i])]

\* the character class [a-zA-Z]
IsLetter(c) == c \in LetterSet

\* the regex class \w on the characters of the model
IsWordChar(c) == c \in WordCharSet

\* str.startswith
StartsWith(s, p) == Len(s) >= Len(p) /\ SubSeq(s, 1, Len(p)) = p

(***************************************************************************)
(* URLValidator.                                                            *)
(***************************************************************************)
URL(scheme, netloc, path, fragment) ==
    [scheme |-> scheme, netloc |-> netloc, path |-> path,
     params |-> <<>>, query |-> <<>>, fragment |-> fragment]

\* urlparse lower-cases the scheme; normalize_url lower-cases the netloc and
\* empties the fragment
normalize_url(url) ==
    [scheme |-> Lower(url.scheme), netloc |-> Lower(url.netloc),
     path |-> url.path, params |-> url.params, query |-> url.query,
     fragment |-> <<>>]

get_domain(url) == Lower(url.netloc)

StripWww(d) ==
    IF StartsWith(d, <<"w","w","w",".">>) THEN SubSeq(d, 5, Len(d)) ELSE d

is_same_domain_any(url1, url2) == TRUE

is_same_domain(url1, url2) ==
    StripWww(Lower(get_domain(url1))) = StripWww(Lower(get_domain(url2)))

is_valid_url_any(url) == TRUE

is_valid_url(url) == url.scheme # <<>> /\ url.netloc # <<>>

(***************************************************************************)
(* urllib.parse on URL strings, and normalize_url from string to string.    *)
(***************************************************************************)
\* urllib.parse.scheme_chars
SchemeChars == LetterSet \cup DigitChars \cup {"+", "-", "."}

\* the schemes of urllib.parse.uses_netloc that occur
UsesNetloc ==
    {<<"h","t","t","p">>, <<"h","t","t","p","s">>, <<"f","t","p">>}

\* index of the first character of s from index start on that is in cs, 0
\* when there is none (str.find)
IndexOf(s, cs, start) ==
    LET hits == {i \in start..Len(s) : s[i] \in cs}
    IN  IF hits = {} THEN 0 ELSE CHOOSE i \in hits : \A j \in hits : i <= j

\* urlparse(url); no ";" occurs in the URLs of the model, so params is ""
urlparse(s) ==
    LET colon == IndexOf(s, {":"}, 1)
        hasScheme == /\ colon > 1
                     /\ IsLetter(s[1])
                     /\ \A k \in 1..(colon - 1) : s[k] \in SchemeChars
        scheme == IF hasScheme THEN Lower(SubSeq(s, 1, colon - 1)) ELSE <<>>
        rest1 == IF hasScheme THEN SubSeq(s, colon + 1, Len(s)) ELSE s
        hasNetloc == StartsWith(rest1, <<"/", "/">>)
        delim == IndexOf(rest1, {"/", "?", "#"}, 3)
        netlocEnd == IF delim = 0 THEN Len(rest1) ELSE delim - 1
        netloc == IF hasNetloc THEN SubSeq(rest1, 3, netlocEnd) ELSE <<>>
        rest2 == IF hasNetloc THEN SubSeq(rest1, netlocEnd + 1, Len(rest1))
                 ELSE rest1
        hash == IndexOf(rest2, {"#"}, 1)
        fragment == IF hash = 0 THEN <<>>
                    ELSE SubSeq(rest2, hash + 1, Len(rest2))
        rest3 == IF hash = 0 THEN rest2 ELSE SubSeq(rest2, 1, hash - 1)
        qmark == IndexOf(rest3, {"?"}, 1)
        query == IF qmark = 0 THEN <<>>
                 ELSE SubSeq(rest3, qmark + 1, Len(rest3))
        path == IF qmark = 0 THEN rest3 ELSE SubSeq(rest3, 1, qmark - 1)
    IN  [scheme |-> scheme, netloc |-> netloc, path |-> path,
         params |-> <<>>, query |-> query, fragment |-> fragment]

\* urlunsplit's decision to write "//" and the netloc (CPython before 3.12.4)
WritesNetloc(u) ==
    \/ u.netloc # <<>>
    \/ /\ u.scheme # <<>>
       /\ u.scheme \in UsesNetloc
       /\ ~StartsWith(u.path, <<"/", "/">>)

\* urlunparse(components), params being empty
urlunparse(u) ==
    LET url1 == IF WritesNetloc(u)
                THEN <<"/", "/">> \o u.netloc \o
                     (IF u.path # <<>> /\ u.path[1] # "/"
                      THEN <<"/">> \o u.path ELSE u.path)
                ELSE u.path
        url2 == IF u.scheme # <<>> THEN u.scheme \o <<":">> \o url1 ELSE url1
        url3 == IF u.query # <<>> THEN url2 \o <<"?">> \o u.query ELSE url2
    IN  IF u.fragment # <<>> THEN url3 \o <<"#">> \o u.fragment ELSE url3

\* URLValidator.normalize_url, from URL string to URL string
normalize_url_string(s) == urlunparse(normalize_url(urlparse(s)))

(***************************************************************************)
(* IgnoreListManager and TextProcessor.extract_words.                       *)
(***************************************************************************)
\* IgnoreListManager.ignore_words, as loaded from the ignore file
ignore_words == {<<"t","h","e">>, <<"c","o","o">>}

should_ignore(word) == Lower(word) \in ignore_words

\* does the regex assertion \b hold between t[i] and t[i+1] (i in 0..Len(t))
WordAt(t, i) == i \in 1..Len(t) /\ IsWordChar(t[i])

IsBoundary(t, i) == WordAt(t, i) # WordAt(t, i + 1)

\* last index of the greedy [a-zA-Z]+ started at i (i - 1 when t[i] is no letter)
RunEnd(t, i) ==
    CHOOSE e \in (i - 1)..Len(t) :
        /\ \A k \in i..e : IsLetter(t[k])
        /\ (e = Len(t) \/ ~IsLetter(t[e + 1]))

\* \b[a-zA-Z]+\b tried at start index i: the end index of the match, 0 when
\* there is none.  The engine takes the longest run and backtracks to shorter
\* ones until the closing \b holds.
MatchEnd_unanchored(t, i) == IF RunEnd(t, i) >= i THEN RunEnd(t, i) ELSE 0

MatchEnd(t, i) ==
    IF ~IsBoundary(t, i - 1) THEN 0
    ELSE LET ends == {j \in i..RunEnd(t, i) : IsBoundary(t, j)}
         IN  IF ends = {} THEN 0
             ELSE CHOOSE j \in ends : \A k \in ends : k <= j

\* word_pattern.findall(t), scanning from index i: leftmost matches, each
\* search resuming where the previous match ended
RECURSIVE FindAllFrom(_, _)
FindAllFrom(t, i) ==
    IF i > Len(t) THEN <<>>
    ELSE LET j == MatchEnd(t, i)
         IN  IF j = 0 THEN FindAllFrom(t, i + 1)
             ELSE <<SubSeq(t, i, j)>> \o FindAllFrom(t, j + 1)

word_pattern_findall(t) == FindAllFrom(t, 1)

KeepWord_nolen(word) == ~should_ignore(word)

KeepWord(word) == ~should_ignore(word) /\ Len(word) > 2

extract_words_candidates(t) == word_pattern_findall(Lower(t))

extract_words(t) == SelectSeq(extract_words_candidates(t), KeepWord)

(***************************************************************************)
(* collections.Counter, as a function from its keys to their counts.        *)
(***************************************************************************)
EmptyCounter == [w \in {} |-> 0]

CountOf(c, w) == IF w \in DOMAIN c THEN c[w] ELSE 0

Occurrences(ws, w) == Cardinality({i \in 1..Len(ws) : ws[i] = w})

\* Counter(words)
Counter(ws) == [w \in Range(ws) |-> Occurrences(ws, w)]

\* Counter.update(other): counts are added, where dict.update replaces them
CounterUpdate_replace(c, p) ==
    [w \in DOMAIN c \cup DOMAIN p |-> IF w \in DOMAIN p THEN p[w] ELSE c[w]]

CounterUpdate(c, p) ==
    [w \in DOMAIN c \cup DOMAIN p |-> CountOf(c, w) + CountOf(p, w)]

\* the distinct elements of ws in the order of their first occurrence: the
\* key order of Counter(ws)
FirstOccurrences(ws) ==
    LET firsts == {i \in 1..Len(ws) : \A j \in 1..(i - 1) : ws[j] # ws[i]}
    IN  [k \in 1..Cardinality(firsts) |->
            ws[CHOOSE i \in firsts :
                  Cardinality({j \in firsts : j < i}) = k - 1]]

\* the key order of a Counter after update(Counter(ws)): new keys are
\* appended in the order Counter(ws) holds them
KeysAfterUpdate(order, ws) ==
    order \o SelectSeq(FirstOccurrences(ws),
                       LAMBDA w : w \notin Range(order))

\* Counter.items(): <<word, count>> in key order
Items(order, c) == [i \in 1..Len(order) |-> <<order[i], c[order[i]]>>]

\* one insertion of the stable descending sort by count: item goes behind
\* every element whose count is not smaller
InsertDesc_unstable(sorted, item) ==
    LET k == Cardinality({i \in 1..Len(sorted) : sorted[i][2] > item[2]})
    IN  SubSeq(sorted, 1, k) \o <<item>> \o SubSeq(sorted, k + 1, Len(sorted))

InsertDesc(sorted, item) ==
    LET k == Cardinality({i \in 1..Len(sorted) : sorted[i][2] >= item[2]})
    IN  SubSeq(sorted, 1, k) \o <<item>> \o SubSeq(sorted, k + 1, Len(sorted))

\* sorted(items, key=itemgetter(1), reverse=True)
RECURSIVE SortedDesc(_)
SortedDesc(items) ==
    IF items = <<>> THEN <<>>
    ELSE InsertDesc(SortedDesc(SubSeq(items, 1, Len(items) - 1)),
                    items[Len(items)])

\* the argument of most_common in the crawl summary
TopWords == 10

\* Counter.most_common(n)
most_common(order, c, n) ==
    LET all == SortedDesc(Items(order, c))
    IN  SubSeq(all, 1, IF n < Len(all) THEN n ELSE Len(all))

(***************************************************************************)
(* The site being crawled: the URLs that occur, and what a fetch returns.   *)
(***************************************************************************)
HostA == <<"a",".","c">>
HostAUpper == <<"A",".","C">>
HostWwwA == <<"w","w","w",".","a",".","c">>
HostB == <<"b",".","c">>

\* values of --url
SeedHome == URL(<<"H">>, HostAUpper, <<"/">>, <<"t","o","p">>)
SeedWww == URL(<<"h">>, HostWwwA, <<"/","2">>, <<>>)
SeedNoScheme == URL(<<>>, <<>>, <<"a",".","c","/">>, <<>>)
SeedNoHost == URL(<<"m">>, <<>>, <<"x">>, <<>>)
Seeds == {SeedHome, SeedWww, SeedNoScheme, SeedNoHost}

\* anchors of a page, after urljoin(base_url, href)
HrefHome == URL(<<"h">>, HostA, <<"/">>, <<"t","o","p">>)
HrefOne == URL(<<"h">>, HostAUpper, <<"/","1">>, <<>>)
HrefTwo == URL(<<"h">>, HostWwwA, <<"/","2">>, <<"f">>)
HrefOff == URL(<<"h">>, HostB, <<"/">>, <<>>)
HrefMail == URL(<<"m">>, <<>>, <<"x">>, <<>>)
Hrefs == {HrefHome, HrefOne, HrefTwo, HrefOff, HrefMail}

NormURLs == {normalize_url(u) : u \in Seeds \cup Hrefs}

\* What a fetch can meet: session.get raised RequestException; a
\* content-type outside the allowlist; an empty response.text; or an HTML
\* body.  parseok: whether BeautifulSoup(html_content, 'html.parser') went
\* through; extract_text_from_html and extract_links parse the same string,
\* so it raises in both or in neither.
HtmlResponses ==
    {[kind |-> "html", hrefs |-> h, parseok |-> TRUE] :
        h \in {x \in SUBSET Hrefs : Cardinality(x) <= MaxLinks}}
    \cup {[kind |-> "html", hrefs |-> h, parseok |-> FALSE] :
             h \in {{}, {HrefOne}}}

NoBody(kind) ==
    [kind |-> kind, hrefs |-> {}, parseok |-> TRUE]

Unfetched == NoBody("unfetched")

FailResponses == {NoBody("error"), NoBody("nonhtml"), NoBody("emptybody")}

\* requests raises MissingSchema / InvalidSchema / InvalidURL (all
\* RequestException) for a URL without scheme or host
Responses(url) ==
    IF url.scheme = <<>> \/ url.netloc = <<>> THEN {NoBody("error")}
    ELSE FailResponses \cup HtmlResponses

\* the visible text BeautifulSoup renders for the page at url
PageText(url) ==
    CASE url.path = <<"/">> ->
            <<"C","a","t"," ","t","h","e"," ","c","a","t"," ","a","t">>
      [] url.path = <<"/","1">> ->
            <<"c","o","2"," ","d","o","g"," ","c","a","t">>
      [] url.path = <<"/","2">> ->
            <<"D","o","g","_","x"," ","s","a","t",".">>
      [] OTHER -> <<"c","a","t">>

fetch_fails_never(r) == FALSE

\* fetch_page: the html_content returned is falsy (None or "") unless an
\* HTML body came back
fetch_fails(r) == r.kind # "html"

\* extract_text_from_html: "" when BeautifulSoup raised
extract_text_from_html_noexcept(r, url) == PageText(url)

extract_text_from_html(r, url) == IF r.parseok THEN PageText(url) ELSE <<>>

\* extract_links: the normalized anchors that are valid URLs
extract_links(r) ==
    IF r.parseok
    THEN {l \in {normalize_url(h) : h \in r.hrefs} : is_valid_url(l)}
    ELSE {}

(***************************************************************************)
(* WebSpider.                                                               *)
(***************************************************************************)
\* current_url before the first pop
NoURL == URL(<<>>, <<>>, <<>>, <<>>)

Init ==
    /\ pc = "start"
    /\ seed \in Seeds
    /\ web = [u \in NormURLs |-> Unfetched]
    /\ urls_to_visit = {}
    /\ visited_urls = {}
    /\ word_counts = EmptyCounter
    /\ word_order = <<>>
    /\ new_links = {}
    /\ top_words = <<>>
    /\ norm_args = <<>>
    /\ norm_results = <<>>
    /\ page_word_counts = [u \in {} |-> EmptyCounter]
    /\ total_words_processed = 0
    /\ page_count = 0
    /\ current_url = NoURL
    /\ offered = {}
    /\ dequeued = [u \in NormURLs |-> 0]
    /\ fetched = [u \in NormURLs |-> 0]
    /\ sleeps = 0
    /\ text = <<>>
    /\ candidates = <<>>
    /\ words = <<>>

\* crawl_website up to the loop: normalize the seed, return if it is invalid
Start ==
    /\ pc = "start"
    /\ LET start_url == normalize_url(seed)
       IN  IF ~is_valid_url(start_url)
           THEN /\ pc' = "returned"
                /\ UNCHANGED <<urls_to_visit, page_count, offered>>
           ELSE /\ pc' = "loop"
                /\ urls_to_visit' = {start_url}
                /\ offered' = {start_url}
                /\ page_count' = 0
    /\ UNCHANGED <<seed, web, visited_urls, word_counts, word_order,
                   page_word_counts, total_words_processed, current_url,
                   new_links, top_words, dequeued, fetched, sleeps, text,
                   candidates, words, norm_args, norm_results>>

\* urls_to_visit.pop(): what is left of the set
PopRest_keep(pending, url) == pending

PopRest(pending, url) == pending \ {url}

\* self.visited_urls.add(url)
MarkVisited_skip(visited, url) == visited

MarkVisited(visited, url) == visited \cup {url}

\* the set comprehension of crawl_page
same_domain_links(links, url, visited) ==
    {link \in links : is_same_domain(link, url) /\ link \notin visited}

\* the set comprehension of crawl_website
new_unvisited_links(links, visited) ==
    {link \in links : link \notin visited}

\* crawl_page(url, ...) from visited_urls.add on, given the response r of
\* the fetch: its effect on the spider
CrawlPage(url, r) ==
    /\ visited_urls' = MarkVisited(visited_urls, url)
    /\ fetched' = [fetched EXCEPT ![url] = @ + 1]
    /\ web' = [web EXCEPT ![url] = r]
    /\ IF fetch_fails(r)
       THEN UNCHANGED <<word_counts, word_order, page_word_counts,
                        total_words_processed, sleeps, text, candidates,
                        words>>
       ELSE /\ text' = extract_text_from_html(r, url)
            /\ candidates' = extract_words_candidates(text')
            /\ words' = extract_words(text')
            /\ word_counts' = CounterUpdate(word_counts, Counter(words'))
            /\ word_order' = KeysAfterUpdate(word_order, words')
            /\ page_word_counts' =
                   [u \in DOMAIN page_word_counts \cup {url} |->
                       IF u = url THEN Counter(words')
                       ELSE page_word_counts[u]]
            /\ total_words_processed' = total_words_processed + Len(words')
            /\ sleeps' = sleeps + 1

\* visited_urls when fetch_page and the link filter run: url was added before
visited_at_fetch_late(url) == visited_urls

visited_at_fetch(url) == MarkVisited(visited_urls, url)

\* the set crawl_page returns, visited being visited_urls after the add
crawl_page_links(url, r, visited) ==
    IF fetch_fails(r) THEN {}
    ELSE same_domain_links(extract_links(r), url, visited)

\* one iteration of the while loop of crawl_website, crawl_page and
\* fetch_page included
CrawlStep ==
    /\ pc = "loop"
    /\ urls_to_visit # {}
    /\ page_count < MaxSteps
    /\ \E url \in urls_to_visit :
         /\ page_count' = page_count + 1
         /\ current_url' = url
         /\ dequeued' = [dequeued EXCEPT ![url] = @ + 1]
         /\ IF url \in visited_urls
            THEN /\ new_links' = {}
                 /\ urls_to_visit' = PopRest(urls_to_visit, url)
                 /\ UNCHANGED <<web, visited_urls, word_counts, word_order,
                                page_word_counts, total_words_processed,
                                fetched, sleeps, text, candidates, words>>
            ELSE \E r \in (IF web[url] = Unfetched THEN Responses(url)
                           ELSE {web[url]}) :
                    /\ CrawlPage(url, r)
                    /\ new_links' =
                         crawl_page_links(url, r, visited_at_fetch(url))
                    /\ urls_to_visit' =
                         PopRest(urls_to_visit, url) \cup
                         new_unvisited_links(new_links', visited_urls')
    /\ offered' = offered \cup urls_to_visit'
    /\ UNCHANGED <<pc, seed, top_words, norm_args, norm_results>>

\* the while condition is false: the summary with the top 10 words
Finish ==
    /\ pc = "loop"
    /\ urls_to_visit = {}
    /\ pc' = "done"
    /\ top_words' = most_common(word_order, word_counts, TopWords)
    /\ UNCHANGED <<seed, web, urls_to_visit, visited_urls, word_counts,
                   word_order, page_word_counts, total_words_processed,
                   page_count, current_url, new_links, offered, dequeued,
                   fetched, sleeps, text, candidates, words, norm_args,
                   norm_results>>

Next == Start \/ CrawlStep \/ Finish

Spec == Init /\ [][Next]_vars

\* the interpreter runs the loop as long as it has a step to take
LiveSpec == Spec /\ WF_vars(Next)

(***************************************************************************)
(* TextProcessor.extract_words on its own, for every short text.            *)
(***************************************************************************)
TextChars == {"c", "O", "2", "_", " "}

Texts == UNION {[1..n -> TextChars] : n \in 0..MaxTextLen}

InitWords ==
    /\ pc = "extract_words"
    /\ text \in Texts
    /\ candidates = <<>>
    /\ words = <<>>
    /\ seed = SeedHome
    /\ web = [u \in NormURLs |-> Unfetched]
    /\ urls_to_visit = {}
    /\ visited_urls = {}
    /\ word_counts = EmptyCounter
    /\ word_order = <<>>
    /\ new_links = {}
    /\ top_words = <<>>
    /\ norm_args = <<>>
    /\ norm_results = <<>>
    /\ page_word_counts = [u \in {} |-> EmptyCounter]
    /\ total_words_processed = 0
    /\ page_count = 0
    /\ current_url = NoURL
    /\ offered = {}
    /\ dequeued = [u \in NormURLs |-> 0]
    /\ fetched = [u \in NormURLs |-> 0]
    /\ sleeps = 0

ExtractWords ==
    /\ pc = "extract_words"
    /\ candidates' = extract_words_candidates(text)
    /\ words' = extract_words(text)
    /\ pc' = "extracted"
    /\ UNCHANGED <<seed, web, urls_to_visit, visited_urls, word_counts,
                   word_order, page_word_counts, total_words_processed,
                   page_count, current_url, new_links, top_words, offered,
                   dequeued, fetched, sleeps, text, norm_args, norm_results>>

NextWords == ExtractWords

SpecWords == InitWords /\ [][NextWords]_vars

(***************************************************************************)
(* URLValidator.normalize_url on its own, on URL strings put together from  *)
(* a scheme, an authority, a path, a query and a fragment part.             *)
(***************************************************************************)
SchemeParts == {<<>>, <<"h","t","t","p",":">>, <<"H","T","T","P",":">>}

HostParts == {<<"a",".","c">>, <<"A",".","c">>}

AuthorityParts == {<<>>, <<"/","/">>} \cup {<<"/","/">> \o h : h \in HostParts}

PathParts == {<<>>, <<"/","P">>, <<"/","/","A",".","c">>}

QueryParts == {<<>>, <<"?","Q">>}

FragmentParts == {<<>>, <<"#","F">>, <<"#","g">>}

URLParts ==
    [scheme : SchemeParts, authority : AuthorityParts, path : PathParts,
     query : QueryParts, fragment : FragmentParts]

\* the URL string made of the parts
URLString(p) == p.scheme \o p.authority \o p.path \o p.query \o p.fragment

\* the parts q that differ from p at most in the fragment, or at most in
\* the letter case of the host
FragmentVariants(p) == {[p EXCEPT !.fragment = f] : f \in FragmentParts}

HostCaseVariants(p) ==
    IF p.authority \in {<<>>, <<"/","/">>} THEN {p}
    ELSE {[p EXCEPT !.authority = <<"/","/">> \o h] : h \in HostParts}

InitNormalize ==
    /\ pc = "normalize_url"
    /\ \E p \in URLParts :
          \E q \in FragmentVariants(p) \cup HostCaseVariants(p) :
             norm_args = [url |-> URLString(p), other |-> URLString(q)]
    /\ norm_results = <<>>
    /\ text = <<>>
    /\ candidates = <<>>
    /\ words = <<>>
    /\ seed = SeedHome
    /\ web = [u \in NormURLs |-> Unfetched]
    /\ urls_to_visit = {}
    /\ visited_urls = {}
    /\ word_counts = EmptyCounter
    /\ word_order = <<>>
    /\ new_links = {}
    /\ top_words = <<>>
    /\ page_word_counts = [u \in {} |-> EmptyCounter]
    /\ total_words_processed = 0
    /\ page_count = 0
    /\ current_url = NoURL
    /\ offered = {}
    /\ dequeued = [u \in NormURLs |-> 0]
    /\ fetched = [u \in NormURLs |-> 0]
    /\ sleeps = 0

\* normalize_url(url), normalize_url(other) and normalize_url of the first
\* result
Normalize ==
    /\ pc = "normalize_url"
    /\ norm_results' =
          [url |-> normalize_url_string(norm_args.url),
           other |-> normalize_url_string(norm_args.other),
           again |-> normalize_url_string(
                         normalize_url_string(norm_args.url))]
    /\ pc' = "normalized"
    /\ UNCHANGED <<seed, web, urls_to_visit, visited_urls, word_counts,
                   word_order, page_word_counts, total_words_processed,
                   page_count, current_url, new_links, top_words, offered,
                   dequeued, fetched, sleeps, text, candidates, words,
                   norm_args>>

NextNormalize == Normalize

SpecNormalize == InitNormalize /\ [][NextNormalize]_vars

(***************************************************************************)
(* Properties.                                                              *)
(***************************************************************************)
\* the links the page at u turned out to carry (empty until it is fetched)
LinksTo(u) ==
    IF web[u].kind = "html" /\ web[u].parseok
    THEN {normalize_url(h) : h \in web[u].hrefs}
    ELSE {}

FetchFailed(u) == web[u].kind \in {"error", "nonhtml", "emptybody"}

SeedIsValid ==
    normalize_url(seed).scheme # <<>> /\ normalize_url(seed).netloc # <<>>

\* host equality ignoring one leading "www.", against the seed
InSeedDomain(u) ==
    StripWww(Lower(u.netloc)) = StripWww(Lower(seed.netloc))

\* C1: no URL is popped from urls_to_visit, or fetched, more than once in a
\* crawl, whatever the link graph and the pop order.
C1_NoRevisit ==
    \A u \in NormURLs : dequeued[u] <= 1 /\ fetched[u] <= 1

\* a finished crawl in which a page linked to itself and two different pages
\* linked to the same visited page
C1_Witness ==
    /\ pc = "done"
    /\ \E u \in visited_urls : u \in LinksTo(u)
    /\ \E v, w \in visited_urls :
          v # w /\ LinksTo(v) \cap LinksTo(w) \cap visited_urls # {}

\* C2: at the start of every loop iteration and at loop exit, urls_to_visit
\* and visited_urls are disjoint.
C2_PendingVisitedDisjoint ==
    pc \in {"loop", "done"} => urls_to_visit \cap visited_urls = {}

\* between iterations, with URLs pending, after a page offered a visited URL
C2_Witness ==
    /\ pc = "loop"
    /\ urls_to_visit # {}
    /\ \E u \in visited_urls : LinksTo(u) \cap visited_urls # {}

\* C3: with a valid seed the loop reaches "done" on every link graph, cycles
\* and self-links included, and then nothing is pending and every URL that
\* was reached was popped and fetched exactly once and is in visited_urls.
C3_Terminates ==
    /\ SeedIsValid => <>(pc = "done")
    /\ [](pc = "done" =>
            /\ urls_to_visit = {}
            /\ \A u \in NormURLs :
                  /\ dequeued[u] > 0 =>
                        u \in visited_urls /\ dequeued[u] = 1 /\ fetched[u] = 1
                  /\ u \in visited_urls => dequeued[u] = 1)

\* a finished crawl of a graph with a two-page cycle and a self-link
C3_Witness ==
    /\ pc = "done"
    /\ \E u, v \in visited_urls :
          u # v /\ v \in LinksTo(u) /\ u \in LinksTo(v)
    /\ \E w \in visited_urls : w \in LinksTo(w)

\* C4: every URL pending or visited is in the seed's domain (a leading
\* "www." ignored), wherever it was found.
C4_SeedDomainOnly ==
    \A u \in urls_to_visit \cup visited_urls : InSeedDomain(u)

\* a finished crawl where a page other than the seed, on the other host name
\* of the site, carried an off-domain link
C4_Witness ==
    /\ pc = "done"
    /\ \E u \in visited_urls :
          /\ u.netloc # normalize_url(seed).netloc
          /\ normalize_url(HrefOff) \in LinksTo(u)

\* a loop iteration whose fetch returned no HTML body
FetchFailStep ==
    /\ pc = "loop"
    /\ page_count' = page_count + 1
    /\ fetched' # fetched
    /\ web'[current_url'].kind # "html"

\* C5: a failed fetch does not stop the crawl: the URL is visited, the
\* counts and page records are unchanged by that step, nothing is offered
\* from it, the loop goes on to its end, and by then every URL that was ever
\* pending has been visited.
C5_FetchFailureIsolated ==
    /\ [][FetchFailStep =>
            /\ pc' = "loop"
            /\ current_url' \in visited_urls'
            /\ word_counts' = word_counts
            /\ page_word_counts' = page_word_counts
            /\ total_words_processed' = total_words_processed
            /\ urls_to_visit' = urls_to_visit \ {current_url'}]_vars
    /\ SeedIsValid => <>(pc = "done")
    /\ [](pc = "done" => offered \subseteq visited_urls)

\* right after a failed fetch in mid-crawl, with records made and URLs pending
C5_Witness ==
    /\ pc = "loop"
    /\ current_url # NoURL
    /\ FetchFailed(current_url)
    /\ current_url # normalize_url(seed)
    /\ urls_to_visit # {}
    /\ DOMAIN page_word_counts # {}

\* C6: every key of page_word_counts is in visited_urls.
C6_RecordsAreVisited == DOMAIN page_word_counts \subseteq visited_urls

C6_Witness ==
    /\ DOMAIN page_word_counts # {}
    /\ visited_urls \ DOMAIN page_word_counts # {}

\* C7 as stated: between iterations every visited URL, failed fetches
\* included, has a page record.
C7_RecordPerVisitedPage ==
    pc \in {"loop", "done"} => DOMAIN page_word_counts = visited_urls

\* C7 amended: the page records are exactly those of the visited URLs whose
\* fetch returned an HTML body, and a record, once made, is never changed or
\* removed.
C7_RecordPerFetchedPage ==
    /\ [](DOMAIN page_word_counts =
             {u \in visited_urls : web[u].kind = "html"})
    /\ [][\A u \in DOMAIN page_word_counts :
             /\ u \in DOMAIN page_word_counts'
             /\ page_word_counts'[u] = page_word_counts[u]]_vars

\* a finished crawl with two records and a failed page
C7_Witness ==
    /\ pc = "done"
    /\ Cardinality(DOMAIN page_word_counts) >= 2
    /\ \E u \in visited_urls : FetchFailed(u)

\* C8: every loop iteration moves exactly the popped URL out of
\* urls_to_visit and into visited_urls, which grows by exactly one.
C8_OneUrlPerStep ==
    [][pc = "loop" /\ page_count' # page_count =>
          /\ current_url' \in urls_to_visit
          /\ current_url' \notin urls_to_visit'
          /\ current_url' \notin visited_urls
          /\ visited_urls' = visited_urls \cup {current_url'}
          /\ Cardinality(visited_urls') = Cardinality(visited_urls) + 1]_vars

\* a finished crawl with a fetched page, a failed fetch and an unparsable page
C8_Witness ==
    /\ pc = "done"
    /\ \E u, v, w \in visited_urls :
          /\ FetchFailed(u)
          /\ web[v].kind = "html" /\ ~web[v].parseok
          /\ web[w].kind = "html" /\ web[w].parseok

\* C9: with a seed whose normalized form has an empty scheme or host the
\* crawl never starts: nothing is popped or fetched and the spider's sets and
\* counts stay empty.
C9_InvalidSeedNeverStarts ==
    ~SeedIsValid =>
        /\ pc \in {"start", "returned"}
        /\ urls_to_visit = {}
        /\ visited_urls = {}
        /\ word_counts = EmptyCounter
        /\ DOMAIN page_word_counts = {}
        /\ total_words_processed = 0
        /\ \A u \in NormURLs : dequeued[u] = 0 /\ fetched[u] = 0

C9_Witness == pc = "returned" /\ ~SeedIsValid /\ seed.scheme # <<>>

\* the maximal runs of ASCII letters of t, as pairs <<first, last>>
MaximalRuns(t) ==
    {r \in (1..Len(t)) \X (1..Len(t)) :
        /\ r[1] <= r[2]
        /\ \A k \in r[1]..r[2] : IsLetter(t[k])
        /\ (r[1] = 1 \/ ~IsLetter(t[r[1] - 1]))
        /\ (r[2] = Len(t) \/ ~IsLetter(t[r[2] + 1]))}

\* those with no digit or underscore right before or right after
DelimitedRuns(t) ==
    {r \in MaximalRuns(t) :
        /\ (r[1] = 1 \/ ~IsWordChar(t[r[1] - 1]))
        /\ (r[2] = Len(t) \/ ~IsWordChar(t[r[2] + 1]))}

\* the substrings of t at the runs R, from left to right
RunsInOrder(t, R) ==
    [k \in 1..Cardinality(R) |->
        LET r == CHOOSE x \in R : Cardinality({q \in R : q[1] < x[1]}) = k - 1
        IN  SubSeq(t, r[1], r[2])]

\* C10 as stated: the candidate tokens are all maximal runs of ASCII letters
\* of the lowercased text, also next to a digit or underscore ("co2" gives
\* "co").
C10_EveryMaximalRun ==
    pc = "extracted" =>
        candidates = RunsInOrder(Lower(text), MaximalRuns(Lower(text)))

\* C10 amended: the candidate tokens are the maximal runs of ASCII letters
\* of the lowercased text that have no digit or underscore right before or
\* after them; "co2" gives no candidate.
C10_DelimitedRunsOnly ==
    pc = "extracted" =>
        candidates = RunsInOrder(Lower(text), DelimitedRuns(Lower(text)))

\* "cO2" tokenized: no candidate
C10_Witness ==
    /\ pc = "extracted"
    /\ text = <<"c", "O", "2">>
    /\ candidates = <<>>

\* every Counter the spider holds: the global one and the page records
AllCounters ==
    {word_counts} \cup {page_word_counts[u] : u \in DOMAIN page_word_counts}

\* C11: every key of word_counts and of every page record is a lowercase
\* ASCII-alphabetic string longer than 2 that is no ignore word, and its
\* count is at least 1.
C11_KeysAreWordTokens ==
    \A c \in AllCounters : \A w \in DOMAIN c :
        /\ Len(w) > 2
        /\ \A i \in 1..Len(w) : w[i] \in Range(LowerLetters)
        /\ w \notin ignore_words
        /\ c[w] >= 1

\* the page whose text is "Cat the cat at" has been counted
C11_Witness ==
    /\ \E u \in DOMAIN page_word_counts :
          /\ PageText(u) = PageText(normalize_url(SeedHome))
          /\ DOMAIN page_word_counts[u] = {<<"c","a","t">>}
          /\ page_word_counts[u][<<"c","a","t">>] = 2
    /\ DOMAIN word_counts # {}

\* position of key w in the insertion order of word_counts
KeyPos(w) == CHOOSE i \in 1..Len(word_order) : word_order[i] = w

\* top is a top-n listing of word_counts: n entries (all, if there are
\* fewer), each a key with its count, no key twice, counts descending,
\* equal counts in insertion order, and no key left out that has a higher
\* count than a listed one
IsTopListing(top, n) ==
    /\ Len(top) = (IF n < Cardinality(DOMAIN word_counts)
                   THEN n ELSE Cardinality(DOMAIN word_counts))
    /\ \A i \in 1..Len(top) :
          top[i][1] \in DOMAIN word_counts /\ top[i][2] = word_counts[top[i][1]]
    /\ \A i, j \in 1..Len(top) :
          i < j =>
             \/ top[i][2] > top[j][2]
             \/ top[i][2] = top[j][2] /\ KeyPos(top[i][1]) < KeyPos(top[j][1])
    /\ \A w \in DOMAIN word_counts :
          (\A i \in 1..Len(top) : top[i][1] # w) =>
             \A i \in 1..Len(top) :
                \/ top[i][2] > word_counts[w]
                \/ top[i][2] = word_counts[w] /\ KeyPos(top[i][1]) < KeyPos(w)

\* C12: most_common(n) lists the n keys of word_counts with the highest
\* counts, counts descending, keys of equal count in the order in which
\* they were first inserted; so for the top 10 of the summary and for
\* every shorter listing.
C12_TopByCountThenInsertion ==
    /\ Range(word_order) = DOMAIN word_counts
    /\ pc = "done" => IsTopListing(top_words, TopWords)
    /\ \A n \in 0..Len(word_order) :
          IsTopListing(most_common(word_order, word_counts, n), n)

\* a summary in which "sat" precedes "dog" at equal count: insertion order,
\* not alphabetical order
C12_Witness ==
    /\ pc = "done"
    /\ top_words = << <<<<"c","a","t">>, 3>>, <<<<"s","a","t">>, 1>>,
                      <<<<"d","o","g">>, 1>> >>


\* C13: normalize_url maps two URLs that differ only in their fragment or
\* only in the letter case of their host to the same string, keeps path and
\* query as they were in the URL, and is idempotent.
C13_NormalizeCanonical ==
    pc = "normalized" =>
       /\ norm_results.url = norm_results.other
       /\ urlparse(norm_results.url).path = urlparse(norm_args.url).path
       /\ urlparse(norm_results.url).query = urlparse(norm_args.url).query
       /\ norm_results.again = norm_results.url


\* sum of f[x] over the x in S
RECURSIVE SumOver(_, _)
SumOver(f, S) ==
    IF S = {} THEN 0
    ELSE LET x == CHOOSE y \in S : TRUE
         IN  f[x] + SumOver(f, S \ {x})

\* the number of fetches so far
Fetches == SumOver(fetched, NormURLs)

\* C14: the delay is applied on every step of the loop, also after a fetch
\* that failed: a step fetches a page only when every fetch before it has
\* been followed by its delay.
C14_DelayBetweenFetches ==
    [][fetched' # fetched => sleeps = Fetches]_vars


\* a step whose fetch returned an HTML body that BeautifulSoup cannot parse
ParseFailStep ==
    /\ pc = "loop"
    /\ page_count' = page_count + 1
    /\ fetched' # fetched
    /\ web'[current_url'].kind = "html"
    /\ ~web'[current_url'].parseok

\* C15: a page whose HTML cannot be rendered to text leaves the state as a
\* fetch failure of the same URL would: the URL is visited, the counts are
\* unchanged, page_word_counts keeps its keys, no link is offered and the
\* loop goes on.
C15_ParseFailureAsFetchFailure ==
    [][ParseFailStep =>
          /\ pc' = "loop"
          /\ current_url' \in visited_urls'
          /\ word_counts' = word_counts
          /\ total_words_processed' = total_words_processed
          /\ DOMAIN page_word_counts' = DOMAIN page_word_counts
          /\ new_links' = {}
          /\ urls_to_visit' = urls_to_visit \ {current_url'}]_vars

\* C15 as the code has it: the same, but page_word_counts gains the URL with
\* an empty record, and the delay is applied.
C15_ParseFailureEmptyRecord ==
    [][ParseFailStep =>
          /\ pc' = "loop"
          /\ current_url' \in visited_urls'
          /\ word_counts' = word_counts
          /\ total_words_processed' = total_words_processed
          /\ current_url' \notin DOMAIN page_word_counts
          /\ DOMAIN page_word_counts' =
                DOMAIN page_word_counts \cup {current_url'}
          /\ page_word_counts'[current_url'] = EmptyCounter
          /\ \A u \in DOMAIN page_word_counts :
                page_word_counts'[u] = page_word_counts[u]
          /\ sleeps' = sleeps + 1
          /\ new_links' = {}
          /\ urls_to_visit' = urls_to_visit \ {current_url'}]_vars

\* right after the step of an unparsable page that holds an anchor, in
\* mid-crawl with counts made and URLs pending
C15_Witness ==
    /\ pc = "loop"
    /\ current_url # NoURL
    /\ web[current_url].kind = "html"
    /\ ~web[current_url].parseok
    /\ web[current_url].hrefs # {}
    /\ current_url \in DOMAIN page_word_counts
    /\ page_word_counts[current_url] = EmptyCounter
    /\ DOMAIN word_counts # {}
    /\ urls_to_visit # {}


\* C16: a dequeued URL is out of urls_to_visit and in visited_urls before its
\* page is fetched and its links are filtered: the set crawl_page returns
\* holds no visited URL, the page's own URL included, and no visited URL is
\* put back into urls_to_visit.
C16_VisitedBeforeProcessing ==
    [][page_count' = page_count + 1 =>
          /\ current_url' \notin urls_to_visit'
          /\ current_url' \in visited_urls'
          /\ new_links' \cap visited_urls' = {}
          /\ \A h \in web'[current_url'].hrefs :
                normalize_url(h) \in visited_urls \cup {current_url'}
                   => normalize_url(h) \notin urls_to_visit']_vars

\* right after the step of a page that links to itself and to a page visited
\* before it
C16_Witness ==
    /\ pc = "loop"
    /\ current_url # NoURL
    /\ current_url \in LinksTo(current_url)
    /\ \E v \in visited_urls \ {current_url} : v \in LinksTo(current_url)
    /\ fetched[current_url] = 1


\* C17: visited_urls never loses a member and no count of word_counts ever
\* decreases: every step leaves visited_urls a subset of its new value, and
\* every word of word_counts a key with a count at least as large.
C17_Monotonic ==
    [][/\ visited_urls \subseteq visited_urls'
       /\ \A w \in DOMAIN word_counts :
             /\ w \in DOMAIN word_counts'
             /\ word_counts'[w] >= word_counts[w]]_vars

\* two pages have been counted, and a word of both has the sum of their
\* counts
C17_Witness ==
    \E u, v \in DOMAIN page_word_counts :
       /\ u # v
       /\ \E w \in DOMAIN page_word_counts[u] \cap DOMAIN page_word_counts[v] :
             /\ page_word_counts[u][w] = 2
             /\ word_counts[w] >= 3


\* the links of the page at u that are valid URLs of the seed's domain; none
\* when the fetch of u failed or its HTML was not parsed
SeedDomainLinks(u) ==
    {l \in LinksTo(u) :
        l.scheme # <<>> /\ l.netloc # <<>> /\ InSeedDomain(l)}

\* the URLs reachable from those of S by such links
RECURSIVE ReachableFrom(_)
ReachableFrom(S) ==
    LET T == S \cup UNION {SeedDomainLinks(u) : u \in S}
    IN  IF T = S THEN S ELSE ReachableFrom(T)

\* C18: when the crawl is done, visited_urls is exactly the set of URLs
\* reachable from the seed by same-domain links of successfully fetched
\* pages, whatever the pop order was, and page_count is its size; a seed
\* whose page has no such link to another URL ends after one page.
C18_VisitedIsReachable ==
    pc = "done" =>
       /\ visited_urls = ReachableFrom({normalize_url(seed)})
       /\ page_count = Cardinality(visited_urls)
       /\ (SeedDomainLinks(normalize_url(seed)) \subseteq {normalize_url(seed)}
              => page_count = 1)

\* a finished crawl over three pages, one of them failed, one of them with
\* a link that leaves the domain
C18_Witness ==
    /\ pc = "done"
    /\ Cardinality(visited_urls) = 3
    /\ \E u \in visited_urls : FetchFailed(u)
    /\ \E u \in visited_urls : \E l \in LinksTo(u) : ~InSeedDomain(l)


\* the words of all page records
RecordedWords == UNION {DOMAIN page_word_counts[u] : u \in DOMAIN page_word_counts}

\* the sum over all page records of the page's count of w
RecordedCount(w) ==
    SumOver([u \in DOMAIN page_word_counts |->
                IF w \in DOMAIN page_word_counts[u]
                THEN page_word_counts[u][w] ELSE 0],
            DOMAIN page_word_counts)

\* C19: between loop iterations, word_counts[w] is for every word w the sum
\* over all page records of the page's count of w, and
\* total_words_processed is the sum of all counts of word_counts.
C19_CountsAreSums ==
    /\ DOMAIN word_counts = RecordedWords
    /\ \A w \in DOMAIN word_counts : word_counts[w] = RecordedCount(w)
    /\ total_words_processed = SumOver(word_counts, DOMAIN word_counts)

\* three pages have records, two of them hold a common word, and one word
\* is on one page only
C19_Witness ==
    /\ Cardinality(DOMAIN page_word_counts) = 3
    /\ total_words_processed >= 5
    /\ \E w \in DOMAIN word_counts :
          Cardinality({u \in DOMAIN page_word_counts :
                          w \in DOMAIN page_word_counts[u]}) >= 2
    /\ \E w \in DOMAIN word_counts :
          Cardinality({u \in DOMAIN page_word_counts :
                          w \in DOMAIN page_word_counts[u]}) = 1

====
